---- MODULE Spec2Model ----
(***************************************************************************)
(* GDS Burp API: the Burp transaction record (burp.py, class Burp) and the *)
(* replay builder (class Scanner).                                         *)
(*                                                                         *)
(* Python strings are modelled as sequences of one-character strings, so   *)
(* that int(), str(), str.title(), slicing and the "in" substring test are *)
(* computed character by character.  Python's None is the value None.      *)
(***************************************************************************)
EXTENDS Integers, Sequences, FiniteSets, TLC

VARIABLES pc, data, self, exc, held, last

vars == <<pc, data, self, exc, held, last>>

\* longest raw request/response body of the parsed log entry
MaxBodyLen == 3

None == <<"<None>">>

-----------------------------------------------------------------------------
(* Characters *)

lowercase == <<"a","b","c","d","e","f","g","h","i","j","k","l","m",
               "n","o","p","q","r","s","t","u","v","w","x","y","z">>
uppercase == <<"A","B","C","D","E","F","G","H","I","J","K","L","M",
               "N","O","P","Q","R","S","T","U","V","W","X","Y","Z">>
digits == <<"0","1","2","3","4","5","6","7","8","9">>

IsLower(c) == \E i \in 1..Len(lowercase) : lowercase[i] = c
IsUpper(c) == \E i \in 1..Len(uppercase) : uppercase[i] = c
IsCased(c) == IsLower(c) \/ IsUpper(c)
IsDigit(c) == \E i \in 1..Len(digits) : digits[i] = c
IsSpace(c) == c = " "

lower(c) == IF IsUpper(c)
            THEN lowercase[CHOOSE i \in 1..Len(uppercase) : uppercase[i] = c]
            ELSE c
upper(c) == IF IsLower(c)
            THEN uppercase[CHOOSE i \in 1..Len(lowercase) : lowercase[i] = c]
            ELSE c
DigitValue(c) == (CHOOSE i \in 1..Len(digits) : digits[i] = c) - 1

Min(a, b) == IF a < b THEN a ELSE b
Max(a, b) == IF a > b THEN a ELSE b

-----------------------------------------------------------------------------
(* Python built-ins used by burp.py *)

\* str.title(): the first cased character of every run of cased characters
\* is upper-cased, the others lower-cased; uncased characters are kept.
title(s) ==
    [i \in 1..Len(s) |->
        IF i = 1 \/ ~IsCased(s[i - 1]) THEN upper(s[i]) ELSE lower(s[i])]

\* variants of the slice: one byte too many; blanks added up to n
SliceOneMore(s, n) == SubSeq(s, 1, Min(Max(n + 1, 0), Len(s)))
SlicePad(s, n) ==
    IF n > Len(s) THEN s \o [i \in 1..(n - Len(s)) |-> " "]
    ELSE SubSeq(s, 1, Max(n, 0))

\* s[:n]: a negative n counts from the end of s
PySlice(s, n) ==
    IF n >= 0 THEN SubSeq(s, 1, Min(n, Len(s)))
    ELSE SubSeq(s, 1, Max(Len(s) + n, 0))

\* "sub in s"
Contains(s, sub) ==
    \E i \in 0..(Len(s) - Len(sub)) : SubSeq(s, i + 1, i + Len(sub)) = sub

\* str.strip() of blanks
RECURSIVE lstrip(_)
lstrip(s) == IF s # <<>> /\ IsSpace(Head(s)) THEN lstrip(Tail(s)) ELSE s
RECURSIVE rstrip(_)
rstrip(s) == IF s # <<>> /\ IsSpace(s[Len(s)])
             THEN rstrip(SubSeq(s, 1, Len(s) - 1)) ELSE s
strip(s) == rstrip(lstrip(s))

RECURSIVE DigitsValue(_)
DigitsValue(s) ==
    IF s = <<>> THEN 0
    ELSE 10 * DigitsValue(SubSeq(s, 1, Len(s) - 1)) + DigitValue(s[Len(s)])

AllDigits(s) == s # <<>> /\ \A i \in 1..Len(s) : IsDigit(s[i])

\* int(s) of a string: blanks stripped, an optional sign, one or more
\* decimal digits; anything else raises ValueError.
PyInt(s) ==
    LET t == strip(s)
        signed == t # <<>> /\ Head(t) \in {"+", "-"}
        body == IF signed THEN Tail(t) ELSE t
    IN  IF AllDigits(body)
        THEN [ok |-> TRUE,
              val |-> IF signed /\ Head(t) = "-" THEN 0 - DigitsValue(body)
                      ELSE DigitsValue(body)]
        ELSE [ok |-> FALSE, val |-> 0]

\* str(n) of a non-negative integer
RECURSIVE PyStr(_)
PyStr(n) == IF n < 10 THEN <<digits[n + 1]>>
            ELSE PyStr(n \div 10) \o <<digits[(n % 10) + 1]>>

\* truth value of a string or None
Truthy(v) == v # None /\ v # <<>>

-----------------------------------------------------------------------------
(* Dictionaries are functions; {} is the function with the empty domain *)

EmptyDict == [k \in {} |-> None]

\* d.get(k, default)
Get(d, k, default) == IF k \in DOMAIN d THEN d[k] ELSE default

\* d.update(e)
Update(d, e) ==
    [k \in DOMAIN d \cup DOMAIN e |-> IF k \in DOMAIN e THEN e[k] ELSE d[k]]

NoExc == [type |-> "", arg |-> ""]
Raise(t, a) == [type |-> t, arg |-> a]

\* a variant of d[k]: a missing key reads as {}
GetItemOrEmpty(d, k) ==
    IF k \in DOMAIN d THEN [exc |-> NoExc, val |-> d[k]]
    ELSE [exc |-> NoExc, val |-> EmptyDict]

\* d[k]: the value, or KeyError(k)
GetItem(d, k) ==
    IF k \in DOMAIN d THEN [exc |-> NoExc, val |-> d[k]]
    ELSE [exc |-> Raise("KeyError", k), val |-> None]

-----------------------------------------------------------------------------
(* Collaborators of burp.py *)

CR == "\r"
LF == "\n"

\* the lines of a header blob, split at CRLF
RECURSIVE SplitLines(_)
SplitLines(s) ==
    LET ends == {i \in 1..(Len(s) - 1) : s[i] = CR /\ s[i + 1] = LF}
    IN  IF ends = {} THEN <<s>>
        ELSE LET i == CHOOSE i \in ends : \A j \in ends : i <= j
             IN  <<SubSeq(s, 1, i - 1)>> \o SplitLines(SubSeq(s, i + 2, Len(s)))

HasColon(line) == \E i \in 1..Len(line) : line[i] = ":"
Colon(line) == CHOOSE i \in 1..Len(line) :
                  line[i] = ":" /\ \A j \in 1..(i - 1) : line[j] # ":"
HeaderName(line) == title(strip(SubSeq(line, 1, Colon(line) - 1)))
HeaderValue(line) == strip(SubSeq(line, Colon(line) + 1, Len(line)))

\* utils.parse_headers: the "Name: value" lines of the raw header blob as a
\* mapping from the title-cased name to the value; a later line replaces an
\* earlier one of the same name; no blob gives the empty mapping.
parse_headers(raw) ==
    IF ~Truthy(raw) THEN EmptyDict
    ELSE LET lines == SelectSeq(SplitLines(raw), HasColon)
         IN  [n \in {HeaderName(lines[i]) : i \in 1..Len(lines)} |->
                LET j == CHOOSE j \in 1..Len(lines) :
                         /\ HeaderName(lines[j]) = n
                         /\ \A k \in (j + 1)..Len(lines) :
                                HeaderName(lines[k]) # n
                IN  HeaderValue(lines[j])]

\* utils.parse_parameters: reads the request of the record it is given; the
\* mapping it returns is represented by what it was computed from.
parse_parameters(burp) ==
    [method |-> burp.request.method,
     url    |-> burp.url,
     body   |-> burp.request.body]

\* urlparse.urljoin for an absolute or root-relative url and a base without
\* a path: no base gives url, an absolute url wins, otherwise base + url
urljoin(base, url) ==
    IF ~Truthy(base) THEN url
    ELSE IF Contains(url, <<":", "/", "/">>) THEN url
    ELSE base \o url

\* urlparse.urlparse: <<scheme, netloc, path>>
SchemeSep == <<":", "/", "/">>
urlparse(url) ==
    IF Contains(url, SchemeSep)
    THEN LET i == CHOOSE i \in 1..Len(url) :
                     /\ SubSeq(url, i, i + 2) = SchemeSep
                     /\ \A j \in 1..(i - 1) : SubSeq(url, j, j + 2) # SchemeSep
             rest == SubSeq(url, i + 3, Len(url))
             cut == {j \in 1..Len(rest) : rest[j] = "/"}
             p == IF cut = {} THEN Len(rest) + 1
                  ELSE CHOOSE j \in cut : \A k \in cut : j <= k
         IN  <<SubSeq(url, 1, i - 1), SubSeq(rest, 1, p - 1),
               SubSeq(rest, p, Len(rest))>>
    ELSE <<<<>>, <<>>, url>>

\* ParseResult.geturl
geturl(u) == IF u[1] = <<>> THEN u[3] ELSE u[1] \o SchemeSep \o u[2] \o u[3]

-----------------------------------------------------------------------------
(* class Burp *)

ContentLength == <<"C","o","n","t","e","n","t","-","L","e","n","g","t","h">>
ContentType   == <<"C","o","n","t","e","n","t","-","T","y","p","e">>
amf           == <<"a","m","f">>

BlankBurp ==
    [host |-> None, ip_address |-> None, time |-> None,
     request |-> EmptyDict, response |-> EmptyDict,
     url |-> None, parameters |-> EmptyDict, replayed |-> <<>>]

\* a variant of the lookup: the name as given
RequestHeaderExact(burp, name) == Get(burp.request.headers, name, <<>>)

\* Burp.get_request_header on a populated record
get_request_header(burp, name) == Get(burp.request.headers, title(name), <<>>)

\* Burp.get_response_header on a populated record
get_response_header(burp, name) == Get(burp.response.headers, title(name), None)

get_request_body(burp) == burp.request.body
get_response_body(burp) == burp.response.body

\* Burp.__len__
len(burp) == Len(get_response_body(burp))

\* int(data['response'].get('status', 0))
Status(resp) ==
    IF "status" \in DOMAIN resp THEN PyInt(resp["status"])
    ELSE [ok |-> TRUE, val |-> 0]

\* lines 91-95: the response body cut to the declared Content-Length
ReconcileResponse(burp) ==
    LET h == get_response_header(burp, ContentLength)
    IN  IF ~Truthy(h) THEN [exc |-> NoExc, self |-> burp]
        ELSE IF ~PyInt(h).ok
        THEN [exc |-> Raise("ValueError", "int"), self |-> burp]
        ELSE IF len(burp) # PyInt(h).val
        THEN [exc |-> NoExc,
              self |-> [burp EXCEPT !.response.body =
                            PySlice(burp.response.body, PyInt(h).val)]]
        ELSE [exc |-> NoExc, self |-> burp]

\* a variant of the test: the Content-Type is not looked at
CutsAlways(burp, n) == Len(get_request_body(burp)) # n

\* lines 99-100: the request body is cut unless it has the declared length
\* or the Content-Type holds "amf"
CutsRequest(burp, n) ==
    /\ Len(get_request_body(burp)) # n
    /\ ~Contains(get_request_header(burp, ContentType), amf)

\* lines 97-102
ReconcileRequest(burp) ==
    LET h == get_request_header(burp, ContentLength)
    IN  IF ~Truthy(h) THEN [exc |-> NoExc, self |-> burp]
        ELSE IF ~PyInt(h).ok
        THEN [exc |-> Raise("ValueError", "int"), self |-> burp]
        ELSE IF CutsRequest(burp, PyInt(h).val)
        THEN [exc |-> NoExc,
              self |-> [burp EXCEPT !.request.body =
                            PySlice(burp.request.body, PyInt(h).val)]]
        ELSE [exc |-> NoExc, self |-> burp]

\* Burp.__process: the record as the method leaves it, and the exception it
\* raised, if any
process(burp, d) ==
    LET s0  == [burp EXCEPT !.host = Get(d, "host", None),
                            !.ip_address = Get(d, "ip_address", None),
                            !.time = Get(d, "time", None)]
        req == GetItem(d, "request")
        s1  == [s0 EXCEPT !.request = Update(s0.request,
                   [method  |-> Get(req.val, "method", None),
                    path    |-> Get(req.val, "path", None),
                    version |-> Get(req.val, "version", None),
                    headers |-> parse_headers(Get(req.val, "headers", None)),
                    body    |-> Get(req.val, "body", <<>>)])]
        resp == GetItem(d, "response")
        st  == Status(resp.val)
        s2  == [s1 EXCEPT !.response = Update(s1.response,
                   [version |-> Get(resp.val, "version", None),
                    status  |-> st.val,
                    reason  |-> Get(resp.val, "reason", None),
                    headers |-> parse_headers(Get(resp.val, "headers", None)),
                    body    |-> Get(resp.val, "body", <<>>)])]
        s3  == [s2 EXCEPT !.url = urlparse(urljoin(s2.host, s2.request.path))]
        s4  == [s3 EXCEPT !.parameters = parse_parameters(s3)]
        r5  == ReconcileResponse(s4)
        r6  == ReconcileRequest(r5.self)
    IN  IF req.exc # NoExc THEN [exc |-> req.exc, self |-> s0]
        ELSE IF resp.exc # NoExc THEN [exc |-> resp.exc, self |-> s1]
        ELSE IF ~st.ok
        THEN [exc |-> Raise("ValueError", "int"), self |-> s1]
        ELSE IF r5.exc # NoExc THEN r5
        ELSE r6

\* Burp.__init__: data without an items attribute leaves the record blank
\* The argument is [type |-> "dict", items |-> the mapping] or NoData.
NoData == [type |-> "NoneType"]
Dict(d) == [type |-> "dict", items |-> d]
HasItems(d) == "items" \in DOMAIN d
init(d) ==
    IF HasItems(d) THEN process(BlankBurp, d.items)
    ELSE [exc |-> NoExc, self |-> BlankBurp]

-----------------------------------------------------------------------------
(* class Scanner *)

POST == <<"P","O","S","T">>
GET  == <<"G","E","T">>

\* a variant: the Content-Length is left as it was
HeadersKept(headers, method, body) == headers

\* lines 241-242: the headers the replay is sent with
ReplayHeaders(headers, method, body) ==
    IF method = POST /\ Truthy(body)
    THEN Update(headers, [k \in {ContentLength} |-> PyStr(Len(body))])
    ELSE headers

\* Scanner.replay(request, url, method, body, headers): an argument left out
\* is None; hdr.kind tells whether headers was left out ("none"), is a
\* mapping of the caller's own ("dict", hdr.val), or is the mapping
\* request.get_request_headers() returned ("request_headers"), the very
\* object the record holds.  The result holds the locals at the end of the
\* call and the record as the call leaves it.
replay(request, url, method, body, hdr) ==
    LET m == IF method = None THEN GetItem(request.request, "method")
             ELSE [exc |-> NoExc, val |-> method]
        b == IF body = None THEN GetItem(request.request, "body")
             ELSE [exc |-> NoExc, val |-> body]
        h == IF hdr.kind = "dict" THEN [exc |-> NoExc, val |-> hdr.val]
             ELSE GetItem(request.request, "headers")
        sent == ReplayHeaders(h.val, m.val, b.val)
        failed(e) == [exc |-> e, url |-> None, method |-> None, body |-> None,
                      headers |-> EmptyDict, self |-> request]
    IN  IF url = None /\ request.url = None
        THEN failed(Raise("AttributeError", "geturl"))
        ELSE IF m.exc # NoExc THEN failed(m.exc)
        ELSE IF b.exc # NoExc THEN failed(b.exc)
        ELSE IF h.exc # NoExc THEN failed(h.exc)
        ELSE [exc |-> NoExc,
              url |-> IF url = None THEN geturl(request.url) ELSE url,
              method |-> m.val, body |-> b.val, headers |-> sent,
              self |-> IF hdr.kind = "request_headers"
                       THEN [request EXCEPT !.request.headers = sent]
                       ELSE request]

-----------------------------------------------------------------------------
(* Inputs *)

BodyText == <<"h","e","l","l","o","W","O","R","L","D">>
Body(k) == SubSeq(BodyText, 1, k)
Bodies == {Body(k) : k \in 0..MaxBodyLen}

lowerstr(s) == [i \in 1..Len(s) |-> lower(s[i])]
upperstr(s) == [i \in 1..Len(s) |-> upper(s[i])]

AmfType  == <<"a","p","p","l","i","c","a","t","i","o","n","/","x","-","a","m","f">>
HtmlType == <<"t","e","x","t","/","h","t","m","l">>
HostUrl  == <<"h","t","t","p",":","/","/","x">>
OtherUrl == <<"h","t","t","p",":","/","/","y","/","b">>
PathA    == <<"/","a">>
HostName == <<"H","o","s","t">>
XName    == <<"X","-","3","d">>

\* Content-Length values of the log: the lengths up to one past the longest
\* body, a negative one, a signed one, an empty one and one that is no number
LengthValues ==
    {PyStr(k) : k \in 0..(MaxBodyLen + 1)}
        \cup {<<"-", "1">>, <<"+", "1">>, <<"x">>, <<>>}

Line(name, value) == name \o <<":", " ">> \o value \o <<CR, LF>>

\* the header blobs: an optional Content-Length line under one of the given
\* spellings of its name, after an optional Content-Type line
Blobs(names, types) ==
    LET cl == {<<>>} \cup {Line(n, v) : n \in names, v \in LengthValues}
        ct == {<<>>} \cup {Line(lowerstr(ContentType), t) : t \in types}
    IN  {t \o l : t \in ct, l \in cl}

Section(keys, vals) == [k \in keys |-> vals[k]]

RequestSection(h, b) ==
    [method |-> GET, path |-> PathA, headers |-> h, body |-> b]

RequestSections ==
    {RequestSection(h, b) :
        h \in Blobs({lowerstr(ContentLength), ContentLength},
                    {AmfType, HtmlType}),
        b \in Bodies}

Status200 == <<"2", "0", "0">>
StatusBad == <<"a", "b", "c">>

ResponseSections ==
    {Section(keys, [status |-> st, headers |-> h, body |-> b]) :
        keys \in {{"status", "headers", "body"}, {"headers", "body"}},
        st \in {Status200, StatusBad},
        h \in Blobs({lowerstr(ContentLength), upperstr(ContentLength)},
                    {AmfType}),
        b \in Bodies}

\* the sections met on the other side while one side ranges over all of its
\* sections: no Content-Length, one that cuts the body, one that is no
\* number, one that comes with an "amf" Content-Type
SomeBlobs ==
    {<<>>, Line(ContentLength, PyStr(1)), Line(ContentLength, <<"x">>),
     Line(ContentType, AmfType) \o Line(ContentLength, PyStr(1))}
SomeRequests == {RequestSection(h, Body(MaxBodyLen)) : h \in SomeBlobs}
SomeResponses ==
    {[status |-> Status200, headers |-> h, body |-> Body(MaxBodyLen)] :
        h \in SomeBlobs}

\* the raw records of the log: both sections, or one or both missing
RawRecords ==
    {Dict([host |-> HostUrl, request |-> rq, response |-> rs]) :
        rq \in RequestSections, rs \in SomeResponses}
    \cup {Dict([host |-> HostUrl, request |-> rq, response |-> rs]) :
        rq \in SomeRequests, rs \in ResponseSections}
    \cup {Dict([host |-> HostUrl, request |-> rq]) : rq \in SomeRequests}
    \cup {Dict([host |-> HostUrl, response |-> rs]) : rs \in SomeResponses}
    \cup {Dict([host |-> HostUrl])}

\* the records whose accessors and replays are explored, and no record
MixedLength == <<"c","O","n","T","e","N","t","-","l","E","n","G","t","H">>
ApiRequests ==
    {[method |-> m, path |-> PathA, headers |-> h, body |-> b] :
        m \in {GET, POST},
        h \in {<<>>,
               Line(lowerstr(ContentLength), PyStr(MaxBodyLen - 1)),
               Line(upperstr(ContentType), AmfType)
                   \o Line(MixedLength, PyStr(MaxBodyLen + 4))},
        b \in {<<>>, Body(MaxBodyLen)}}
ApiResponses ==
    {[status |-> Status200, headers |-> h, body |-> Body(MaxBodyLen)] :
        h \in {<<>>,
               Line(upperstr(ContentLength), PyStr(1))
                   \o Line(lowerstr(ContentType), HtmlType)}}
ApiRecords ==
    {Dict([host |-> HostUrl, request |-> rq, response |-> rs]) :
        rq \in ApiRequests, rs \in ApiResponses}
    \cup {Dict([request |-> RequestSection(<<>>, <<>>), response |-> rs]) :
        rs \in ApiResponses}
    \cup {NoData}

\* the names looked up: spellings of the two headers the log spells, and a
\* header no record holds
LookupNames ==
    {ContentLength, lowerstr(ContentLength), upperstr(ContentLength),
     MixedLength, ContentType, lowerstr(ContentType), XName}

\* longest body a replay is given
MaxReplayBody == 12
ReplayBodies == {None, <<>>, [i \in 1..MaxReplayBody |-> "z"]}

\* the headers argument of a replay
NoHeaders == [kind |-> "none", val |-> EmptyDict]
OwnHeaders ==
    {[kind |-> "dict",
      val |-> [k \in {ContentLength, HostName} |->
                  IF k = HostName THEN <<"x">> ELSE <<"9", "9">>]],
     [kind |-> "dict",
      val |-> [k \in {lowerstr(ContentLength)} |-> <<"9", "9">>]]}
RecordHeaders == [kind |-> "request_headers", val |-> EmptyDict]

-----------------------------------------------------------------------------
(* The state machine *)

NoCall ==
    [op |-> "", arg |-> None, over |-> <<>>, exc |-> NoExc, val |-> None,
     url |-> None, method |-> None, body |-> None, headers |-> EmptyDict]

Init ==
    /\ pc = "start"
    /\ data = NoData
    /\ self = BlankBurp
    /\ exc = NoExc
    /\ held = FALSE
    /\ last = NoCall

\* Burp(data): the caller gets the record unless __init__ raised
Construct(records) ==
    /\ pc = "start"
    /\ \E d \in records :
        LET r == init(d)
        IN  /\ data' = d
            /\ self' = r.self
            /\ exc' = r.exc
            /\ pc' = IF r.exc = NoExc THEN "constructed" ELSE "raised"
    /\ UNCHANGED <<held, last>>

\* a call of an accessor: what it returns or raises
Returned(op, arg, r) ==
    [NoCall EXCEPT !.op = op, !.arg = arg, !.exc = r.exc, !.val = r.val]

\* The accessors read self.request[...] and self.response[...]; a record
\* built without data holds none of the keys.
GetRequestHeader ==
    /\ pc = "constructed"
    /\ \E name \in LookupNames :
        last' = Returned("get_request_header", name,
                    IF "headers" \in DOMAIN self.request
                    THEN [exc |-> NoExc, val |-> get_request_header(self, name)]
                    ELSE [exc |-> Raise("KeyError", "headers"), val |-> None])
    /\ UNCHANGED <<pc, data, self, exc, held>>

GetResponseHeader ==
    /\ pc = "constructed"
    /\ \E name \in LookupNames :
        last' = Returned("get_response_header", name,
                    IF "headers" \in DOMAIN self.response
                    THEN [exc |-> NoExc, val |-> get_response_header(self, name)]
                    ELSE [exc |-> Raise("KeyError", "headers"), val |-> None])
    /\ UNCHANGED <<pc, data, self, exc, held>>

\* get_request_headers returns the mapping the record holds, not a copy
GetRequestHeaders ==
    /\ pc = "constructed"
    /\ LET r == GetItem(self.request, "headers")
       IN  /\ last' = [NoCall EXCEPT !.op = "get_request_headers",
                           !.exc = r.exc,
                           !.headers = IF r.exc = NoExc THEN r.val
                                       ELSE EmptyDict]
           /\ held' = (held \/ r.exc = NoExc)
    /\ UNCHANGED <<pc, data, self, exc>>

GetBodyOrMethod ==
    /\ pc = "constructed"
    /\ \/ last' = Returned("get_request_body", None,
                      GetItem(self.request, "body"))
       \/ last' = Returned("get_response_body", None,
                      GetItem(self.response, "body"))
       \/ last' = Returned("get_request_method", None,
                      GetItem(self.request, "method"))
    /\ UNCHANGED <<pc, data, self, exc, held>>

\* Scanner().replay(self, ...)
Replay ==
    /\ pc = "constructed"
    /\ \E url \in {None, OtherUrl}, method \in {None, GET, POST},
          body \in ReplayBodies,
          hdr \in {NoHeaders} \cup OwnHeaders
                    \cup (IF held THEN {RecordHeaders} ELSE {}) :
        LET r == replay(self, url, method, body, hdr)
        IN  /\ last' = [op |-> "replay", arg |-> None,
                        over |-> <<url, method, body, hdr>>,
                        exc |-> r.exc, val |-> None, url |-> r.url,
                        method |-> r.method, body |-> r.body,
                        headers |-> r.headers]
            /\ self' = r.self
    /\ UNCHANGED <<pc, data, exc, held>>

\* the records of a log, built
Next == Construct(RawRecords)

Spec == Init /\ [][Next]_vars

\* a record built and then used
NextApi ==
    \/ Construct(ApiRecords)
    \/ GetRequestHeader
    \/ GetResponseHeader
    \/ GetRequestHeaders
    \/ GetBodyOrMethod
    \/ Replay

ApiSpec == Init /\ [][NextApi]_vars

-----------------------------------------------------------------------------
(* What the claims speak of *)

\* a record was built from a raw record of the log
Built == pc = "constructed" /\ HasItems(data)
\* the constructor was given a raw record and has returned or raised
Tried == pc # "start" /\ HasItems(data)
HasSections == {"request", "response"} \subseteq DOMAIN data.items

RawBody(side) == Get(data.items[side], "body", <<>>)
RawHeader(side, name) ==
    Get(parse_headers(Get(data.items[side], "headers", None)), name, None)
\* the side's raw Content-Length is there and is no integer
BadLength(side) ==
    Truthy(RawHeader(side, ContentLength))
        /\ ~PyInt(RawHeader(side, ContentLength)).ok
\* the side's raw Content-Length is the integer n
Declares(side, n) ==
    /\ Truthy(RawHeader(side, ContentLength))
    /\ PyInt(RawHeader(side, ContentLength)) = [ok |-> TRUE, val |-> n]
Lengths == (0 - 2)..(MaxBodyLen + 2)
HasAmf(side) ==
    Truthy(RawHeader(side, ContentType))
        /\ Contains(RawHeader(side, ContentType), amf)

\* the first n bytes of s
FirstBytes(s, n) == SubSeq(s, 1, Min(n, Len(s)))
IsPrefix(s, t) == Len(s) <= Len(t) /\ s = SubSeq(t, 1, Len(s))

\* C1 as stated: a response that declares Content-Length N, for any integer
\* N, and whose raw body is longer than N has, once the record is built, a
\* body of exactly N bytes, the first N of the raw body.
C1_AnyInteger ==
    Built =>
        \A n \in Lengths :
            Declares("response", n) /\ Len(RawBody("response")) > n
                => /\ Len(self.response.body) = n
                   /\ self.response.body = FirstBytes(RawBody("response"), n)

\* C1, amended: the same for every N that is not negative.
C1_ResponseCut ==
    Built =>
        \A n \in Lengths :
            /\ n >= 0
            /\ Declares("response", n)
            /\ Len(RawBody("response")) > n
            => /\ Len(self.response.body) = n
               /\ self.response.body = FirstBytes(RawBody("response"), n)

C1_Witness ==
    /\ Built
    /\ Declares("response", 1)
    /\ RawBody("response") = Body(MaxBodyLen)
    /\ self.response.body = Body(1)

\* C2: the body of either side of a built record is a prefix of the raw
\* body, and is the raw body itself when the declared Content-Length is the
\* raw body's length or more.
C2_ShorteningOnly ==
    Built =>
        \A side \in {"request", "response"} :
            /\ IsPrefix(self[side].body, RawBody(side))
            /\ \A n \in Lengths :
                   Declares(side, n) /\ n >= Len(RawBody(side))
                       => self[side].body = RawBody(side)

C2_Witness ==
    /\ Built
    /\ Declares("response", MaxBodyLen + 1)
    /\ RawBody("response") = Body(MaxBodyLen)
    /\ self.response.body = Body(MaxBodyLen)
    /\ Declares("request", 1)
    /\ self.request.body = Body(1)

\* C3 as stated: a request that declares a Content-Length N, any integer,
\* other than its raw body's length has the first N bytes of the raw body
\* when its Content-Type holds no "amf", and the raw body when it does.
C3_AnyInteger ==
    Built =>
        \A n \in Lengths :
            Declares("request", n) /\ n # Len(RawBody("request"))
                => self.request.body =
                       IF HasAmf("request") THEN RawBody("request")
                       ELSE FirstBytes(RawBody("request"), n)

\* C3, amended: the same for every N that is not negative; and "amf" in the
\* Content-Type of the response does not keep the response body from being
\* cut.
C3_RequestCutUnlessAmf ==
    Built =>
        \A n \in Lengths :
            /\ n >= 0 /\ Declares("request", n)
                   /\ n # Len(RawBody("request"))
               => self.request.body =
                      IF HasAmf("request") THEN RawBody("request")
                      ELSE FirstBytes(RawBody("request"), n)
            /\ n >= 0 /\ Declares("response", n) /\ HasAmf("response")
               => self.response.body = FirstBytes(RawBody("response"), n)

C3_Witness ==
    /\ Built
    /\ HasAmf("request")
    /\ Declares("request", 1)
    /\ RawBody("request") = Body(MaxBodyLen)
    /\ self.request.body = Body(MaxBodyLen)
    /\ HasAmf("response")
    /\ Declares("response", 1)
    /\ self.response.body = Body(1)

\* C4 as stated: a Content-Length that is no integer, on either side, is
\* taken as absent: the record is built and that side's body is the raw
\* body.  (The status is one int() accepts, so that nothing else raises.)
C4_BadLengthSkipped ==
    Tried /\ HasSections /\ Status(data.items.response).ok =>
        \A side \in {"request", "response"} :
            BadLength(side)
                => pc = "constructed" /\ self[side].body = RawBody(side)

\* C5 as stated: the status of a built record is the integer the raw status
\* spells, 0 when the raw record has none, and 0 when it spells no integer;
\* the status never keeps the record from being built.
C5_StatusCoerced ==
    Tried /\ HasSections
          /\ ~BadLength("request") /\ ~BadLength("response") =>
        /\ pc = "constructed"
        /\ self.response.status =
              IF "status" \in DOMAIN data.items.response
                    /\ PyInt(data.items.response.status).ok
              THEN PyInt(data.items.response.status).val
              ELSE 0

\* C6: a raw record without its request or its response section makes the
\* constructor raise the missing-key error (KeyError) that names a missing
\* section, and the caller gets no record; a raw record with both sections
\* never raises that error.
C6_MissingSection ==
    Tried =>
        IF HasSections THEN exc.type # "KeyError"
        ELSE /\ pc = "raised"
             /\ exc.type = "KeyError"
             /\ exc.arg \in {"request", "response"} \ DOMAIN data.items

C6_Witness ==
    /\ pc = "raised"
    /\ DOMAIN data.items = {"host", "request"}
    /\ exc = Raise("KeyError", "response")
    /\ self.response = EmptyDict

-----------------------------------------------------------------------------
(* The accessors and the replay *)

\* the lines of the side's raw header blob whose name is `name` in some
\* spelling
RawLines(side, name) ==
    LET lines == SelectSeq(
                    SplitLines(Get(data.items[side], "headers", <<>>)),
                    HasColon)
    IN  {lines[i] : i \in {j \in 1..Len(lines) :
            lowerstr(strip(SubSeq(lines[j], 1, Colon(lines[j]) - 1)))
                = lowerstr(name)}}

SideOf(op) == IF op = "get_request_header" THEN "request" ELSE "response"

\* C7: a header lookup on either side finds every header of the raw log
\* whatever the spelling of its name in the log and in the lookup: the value
\* returned is the one the record holds for that header, which is the value
\* the log gave it as long as the mapping is the one the constructor stored.
C7_CaseInsensitive ==
    (/\ Built
     /\ last.op \in {"get_request_header", "get_response_header"}
     /\ last.exc = NoExc) =>
        \A line \in RawLines(SideOf(last.op), last.arg) :
            LET held_ == self[SideOf(last.op)].headers
                raw == parse_headers(
                          Get(data.items[SideOf(last.op)], "headers", None))
            IN  /\ title(last.arg) \in DOMAIN held_
                /\ last.val = held_[title(last.arg)]
                /\ held_ = raw => last.val = HeaderValue(line)

C7_Witness ==
    /\ Built
    /\ last.op = "get_request_header"
    /\ last.arg = upperstr(ContentLength)
    /\ RawLines("request", last.arg)
           = {lowerstr(ContentLength) \o <<":", " ">>
                  \o PyStr(MaxBodyLen - 1)}
    /\ last.val = PyStr(MaxBodyLen - 1)

\* C8 as stated: get_request_header returns the empty string, and
\* get_response_header returns None, for every name the side's headers do
\* not hold; neither raises.
C8_AbsentHeader ==
    /\ (/\ last.op = "get_request_header"
        /\ title(last.arg) \notin DOMAIN Get(self.request, "headers", EmptyDict))
           => last.exc = NoExc /\ last.val = <<>>
    /\ (/\ last.op = "get_response_header"
        /\ title(last.arg) \notin DOMAIN Get(self.response, "headers", EmptyDict))
           => last.exc = NoExc /\ last.val = None

\* the headers a replay was given, or the record's own
GivenHeaders ==
    IF last.over[4].kind = "dict" THEN last.over[4].val
    ELSE self.request.headers

\* C9: a replay that is POST with a body, after the overrides, is sent with
\* a Content-Length that spells the length of that body in decimal; any
\* other replay is sent with the headers it was given, or with the record's
\* request headers when it was given none.
C9_ReplayContentLength ==
    (last.op = "replay" /\ last.exc = NoExc) =>
        /\ last.method =
              IF last.over[2] = None THEN self.request.method
              ELSE last.over[2]
        /\ last.body =
              IF last.over[3] = None THEN self.request.body ELSE last.over[3]
        /\ IF last.method = POST /\ last.body # <<>>
           THEN /\ ContentLength \in DOMAIN last.headers
                /\ AllDigits(last.headers[ContentLength])
                /\ PyInt(last.headers[ContentLength]).val = Len(last.body)
                /\ \A k \in DOMAIN last.headers \ {ContentLength} :
                       /\ k \in DOMAIN GivenHeaders
                       /\ last.headers[k] = GivenHeaders[k]
           ELSE last.headers = GivenHeaders

C9_Witness ==
    /\ last.op = "replay"
    /\ last.exc = NoExc
    /\ last.over[2] = None /\ last.method = POST
    /\ Len(last.body) = MaxReplayBody
    /\ last.over[4].kind = "dict"
    /\ ContentLength \in DOMAIN last.over[4].val
    /\ last.over[4].val[ContentLength] = <<"9", "9">>
    /\ last.headers[ContentLength] = PyStr(MaxReplayBody)

\* C10 as stated: no accessor call and no replay changes the record that
\* was built, but for appending to its replay history.
C10_RecordKept ==
    [][pc = "constructed" =>
          /\ self'.request = self.request
          /\ self'.response = self.response
          /\ self'.url = self.url
          /\ self'.parameters = self.parameters
          /\ IsPrefix(self.replayed, self'.replayed)]_vars

====
